---- MODULE Spec2Model ----
(***************************************************************************)
(* The HTTP server of src/main.go: a net/http ServeMux with three routes   *)
(* ("/" -> home, "/snippet/view" -> snippetView, "/snippet/create" ->      *)
(* snippetCreate) served by http.ListenAndServe.                           *)
(*                                                                         *)
(* A request is a method and a URL path.  A path is held as the sequence   *)
(* strings.Split(path, "/") of its segments, so "/" is <<"", "">>,         *)
(* "/snippet/view" is <<"", "snippet", "view">>, "/snippet/view/" is       *)
(* <<"", "snippet", "view", "">> and "//" is <<"", "", "">>.  Request      *)
(* paths are in origin form (they begin with "/").                         *)
(*                                                                         *)
(* A response is what the handler leaves in its http.ResponseWriter: the   *)
(* status, the header map as sent, the bytes handed to Write (the server    *)
(* sends none of them in answer to a HEAD request), and the sequence of    *)
(* calls made on the writer.                                               *)
(***************************************************************************)
EXTENDS Integers, Sequences, FiniteSets, TLC

VARIABLES
    mux,      \* the routing table main built before it started to listen
    conns     \* per connection: where its request stands, the request, the
              \* handler the mux chose, and the response writer

vars == <<mux, conns>>

\* Upper bound on the number of segments of a request path.
MaxSegs == 4

\* Number of connections the listener serves at once in SpecConc.
MaxConns == 2

\* Path segments the requests are built from.
Segs == {"", ".", "..", "snippet", "view", "create", "1"}

\* Request methods, as the server passes them to the handlers (no case folding).
Methods == {"GET", "HEAD", "POST", "PUT", "DELETE", "CONNECT", "post", "Post"}

StatusOK == 200
StatusMovedPermanently == 301
StatusNotFound == 404
StatusMethodNotAllowed == 405

MethodPost == "POST"

EmptyPath == <<"">>
RootPath == <<"", "">>
SnippetViewPath == <<"", "snippet", "view">>
SnippetCreatePath == <<"", "snippet", "create">>

\* Every origin-form path of at most MaxSegs segments.
Paths == { <<"">> \o s : s \in UNION { [1..n -> Segs] : n \in 1..MaxSegs } }

Requests == [method : Methods, path : Paths]

\* The requests of SpecConc: one path of each kind the routes tell apart.
ConcPaths ==
    { RootPath, SnippetViewPath, SnippetCreatePath,
      <<"", "snippet", "create", "">>, <<"", "snippet">>, <<"", "", "snippet", "view">> }

ConcRequests == [method : {"GET", "POST", "CONNECT", "post"}, path : ConcPaths]

RECURSIVE Join(_)
\* The path string of a segment sequence: strings.Join(p, "/").
Join(p) ==
    IF Len(p) = 1 THEN p[1] ELSE p[1] \o "/" \o Join(Tail(p))

(***************************************************************************)
(* http.ResponseWriter                                                     *)
(***************************************************************************)
HeaderNames == {"Allow", "Content-Type", "X-Content-Type-Options", "Location"}

\* The writer a handler is given: nothing set, nothing written.
NewResponseWriter ==
    [ status |-> 0,
      header |-> [k \in HeaderNames |-> ""],
      body   |-> "",
      calls  |-> <<>> ]

Call(op, key, val, code) == [op |-> op, key |-> key, val |-> val, code |-> code]

\* w.Header().Set(key, val): changes the response only before the status is written.
HeaderSet(w, key, val) ==
    [ w EXCEPT !.header = IF w.status = 0 THEN [w.header EXCEPT ![key] = val] ELSE @,
               !.calls  = Append(@, Call("Header.Set", key, val, 0)) ]

\* w.WriteHeader(code): the first call sets the status, a later one is superfluous.
WriteHeader(w, code) ==
    [ w EXCEPT !.status = IF w.status = 0 THEN code ELSE @,
               !.calls  = Append(@, Call("WriteHeader", "", "", code)) ]

\* w.Write(b): writes the status 200 first when none was written.
Write(w, b) ==
    LET w1 == IF w.status = 0 THEN WriteHeader(w, StatusOK) ELSE w
    IN  [ w1 EXCEPT !.body  = @ \o b,
                    !.calls = Append(@, Call("Write", "", b, 0)) ]

\* http.Error(w, msg, code): plain-text headers, the status, then fmt.Fprintln(w, msg).
Error(w, msg, code) ==
    LET w1 == HeaderSet(w, "Content-Type", "text/plain; charset=utf-8")
        w2 == HeaderSet(w1, "X-Content-Type-Options", "nosniff")
        w3 == WriteHeader(w2, code)
    IN  Write(w3, msg \o "\n")

\* http.NotFound(w, r)
NotFound(w, r) == Error(w, "404 page not found", StatusNotFound)

\* http.Redirect(w, r, url, code), as the mux's RedirectHandler calls it.
Redirect(w, r, url, code) ==
    LET w1 == HeaderSet(w, "Location", url)
        w2 == IF r.method \in {"GET", "HEAD"}
              THEN HeaderSet(w1, "Content-Type", "text/html; charset=utf-8")
              ELSE w1
        w3 == WriteHeader(w2, code)
    IN  IF r.method = "GET"
        THEN Write(w3, "<a href=\"" \o url \o "\">Moved Permanently</a>.\n\n")
        ELSE w3

(***************************************************************************)
(* The handlers of src/main.go                                             *)
(***************************************************************************)
\* home without its path check.
home_NoPathCheck(w, r) == Write(w, "Hello, World!")

\* home that compares the path with "" instead of "/".
home_EmptyPathCheck(w, r) ==
    IF r.path # EmptyPath THEN NotFound(w, r)
    ELSE Write(w, "Hello, World!")

home(w, r) ==
    IF r.path # RootPath THEN NotFound(w, r)
    ELSE Write(w, "Hello, World!")

\* home of the earlier, one-route server (src/unnamed/part_000): no path check.
home_part000(w, r) == Write(w, "Hello, World!")

\* snippetView that only answers GET.
snippetView_GetOnly(w, r) ==
    IF r.method # "GET" THEN Error(w, "Method Not Allowed", StatusMethodNotAllowed)
    ELSE Write(w, "Display a snippet...")

snippetView(w, r) == Write(w, "Display a snippet...")

\* snippetCreate without the return that ends the non-POST branch.
snippetCreate_NoReturn(w, r) ==
    IF r.method # MethodPost
    THEN LET w1 == HeaderSet(w, "Allow", MethodPost)
             w2 == Error(w1, "Method Not Allowed", StatusMethodNotAllowed)
         IN  Write(w2, "Create a new snippet...")
    ELSE Write(w, "Create a new snippet...")

\* snippetCreate that sets the Allow header on every request.
snippetCreate_AllowAlways(w, r) ==
    LET w1 == HeaderSet(w, "Allow", MethodPost)
    IN  IF r.method # MethodPost
        THEN Error(w1, "Method Not Allowed", StatusMethodNotAllowed)
        ELSE Write(w1, "Create a new snippet...")

\* snippetCreate that answers 405 without the Allow header.
snippetCreate_NoAllow(w, r) ==
    IF r.method # MethodPost
    THEN Error(w, "Method Not Allowed", StatusMethodNotAllowed)
    ELSE Write(w, "Create a new snippet...")

\* snippetCreate that folds the method's case before comparing it.
snippetCreate_FoldCase(w, r) ==
    IF r.method \notin {"POST", "post", "Post"}
    THEN LET w1 == HeaderSet(w, "Allow", MethodPost)
         IN  Error(w1, "Method Not Allowed", StatusMethodNotAllowed)
    ELSE Write(w, "Create a new snippet...")

snippetCreate(w, r) ==
    IF r.method # MethodPost
    THEN LET w1 == HeaderSet(w, "Allow", MethodPost)
         IN  Error(w1, "Method Not Allowed", StatusMethodNotAllowed)
    ELSE Write(w, "Create a new snippet...")

(***************************************************************************)
(* http.ServeMux, as main builds and uses it                               *)
(***************************************************************************)
\* len(pattern): the length of the path string.
StrLen(p) == Len(Join(p))

\* strings.HasPrefix on strings.
StrHasPrefix(s, t) == Len(t) <= Len(s) /\ SubSeq(s, 1, Len(t)) = t

\* strings.HasPrefix(path, pattern) on segment sequences: the segments before
\* the pattern's last one are equal, and its last one begins the path's.
HasPrefix(path, pattern) ==
    /\ Len(pattern) <= Len(path)
    /\ \A i \in 1..(Len(pattern) - 1) : path[i] = pattern[i]
    /\ StrHasPrefix(path[Len(pattern)], pattern[Len(pattern)])

\* A pattern that ends in "/" names a subtree.
IsSubtree(pattern) == pattern[Len(pattern)] = "" /\ Len(pattern) >= 2

\* http.NewServeMux(): no entry.
NewServeMux == [m |-> {}, es |-> <<>>]

\* appendSorted(es, e): before the first entry with a shorter pattern.
appendSorted(es, e) ==
    LET shorter == { i \in 1..Len(es) : StrLen(es[i].pattern) < StrLen(e.pattern) }
        i == IF shorter = {} THEN Len(es) + 1
             ELSE CHOOSE j \in shorter : \A k \in shorter : j <= k
    IN  SubSeq(es, 1, i - 1) \o <<e>> \o SubSeq(es, i, Len(es))

\* HandleFunc that keeps every pattern, subtree or not, in the prefix list.
HandleFunc_AllPrefix(sm, pattern, h) ==
    LET e == [pattern |-> pattern, h |-> h]
    IN  [ m  |-> sm.m \cup {e}, es |-> appendSorted(sm.es, e) ]

\* mux.HandleFunc(pattern, h): the entry goes in the map, and in the sorted
\* prefix list when the pattern names a subtree.
HandleFunc(sm, pattern, h) ==
    LET e == [pattern |-> pattern, h |-> h]
    IN  [ m  |-> sm.m \cup {e},
          es |-> IF IsSubtree(pattern) THEN appendSorted(sm.es, e) ELSE sm.es ]

\* The calls of main, in the order main makes them.
Registrations ==
    << [pattern |-> RootPath,          h |-> "home"],
       [pattern |-> SnippetViewPath,   h |-> "snippetView"],
       [pattern |-> SnippetCreatePath, h |-> "snippetCreate"] >>

RECURSIVE BuildMux(_)
\* The mux after the registrations regs, made in that order.
BuildMux(regs) ==
    IF regs = <<>> THEN NewServeMux
    ELSE LET e == regs[Len(regs)]
         IN  HandleFunc(BuildMux(SubSeq(regs, 1, Len(regs) - 1)), e.pattern, e.h)

\* The routing table of main.
MainMux == BuildMux(Registrations)

\* The routing table of the main of src/unnamed/part_000: "/" alone.
Part000Mux == HandleFunc(NewServeMux, RootPath, "home_part000")

RECURSIVE Clean(_, _)
\* path.Clean on a rooted path: segs are the segments still to read, out the
\* segments kept so far.
Clean(segs, out) ==
    IF segs = <<>> THEN out
    ELSE LET s == Head(segs)
         IN  CASE s = "" \/ s = "." -> Clean(Tail(segs), out)
               [] s = ".." ->
                    Clean(Tail(segs),
                          IF out = <<>> THEN out ELSE SubSeq(out, 1, Len(out) - 1))
               [] OTHER -> Clean(Tail(segs), Append(out, s))

\* cleanPath(p): the canonical path of p, its trailing slash kept.
cleanPath(p) ==
    IF p = EmptyPath THEN RootPath
    ELSE LET q  == IF p[1] # "" THEN <<"">> \o p ELSE p
             c  == Clean(Tail(q), <<>>)
             np == IF c = <<>> THEN RootPath ELSE <<"">> \o c
         IN  IF q[Len(q)] = "" /\ np # RootPath THEN Append(np, "") ELSE np

NoURL == <<>>

\* match that skips the lookup of the whole path.
match_NoExact(sm, path) ==
    LET hits == { i \in 1..Len(sm.es) : HasPrefix(path, sm.es[i].pattern) }
    IN  IF hits # {} THEN sm.es[CHOOSE i \in hits : \A j \in hits : i <= j].h
        ELSE "nil"

\* mux.match(path): the entry of the whole path, else the first (longest)
\* subtree pattern that begins it, else none.
match(sm, path) ==
    LET exact == { e \in sm.m : e.pattern = path }
        hits  == { i \in 1..Len(sm.es) : HasPrefix(path, sm.es[i].pattern) }
    IN  IF exact # {} THEN (CHOOSE e \in exact : TRUE).h
        ELSE IF hits # {} THEN sm.es[CHOOSE i \in hits : \A j \in hits : i <= j].h
        ELSE "nil"

\* mux.handler(host, path): the matched handler, or NotFoundHandler.
handler(sm, path) ==
    LET h == match(sm, path)
    IN  [h |-> IF h = "nil" THEN "NotFoundHandler" ELSE h, url |-> NoURL]

\* mux.shouldRedirectRLocked: path is not registered and path + "/" is.
shouldRedirect(sm, path) ==
    /\ \A e \in sm.m : e.pattern # path
    /\ path # EmptyPath
    /\ \E e \in sm.m : e.pattern = Append(path, "")

\* mux.Handler(r): CONNECT requests are matched on the path as sent; any
\* other request on its cleaned path, and redirected to it when it differs.
Handler(sm, r) ==
    IF r.method = "CONNECT"
    THEN IF shouldRedirect(sm, r.path)
         THEN [h |-> "RedirectHandler", url |-> Append(r.path, "")]
         ELSE handler(sm, r.path)
    ELSE LET path == cleanPath(r.path)
         IN  IF shouldRedirect(sm, path)
             THEN [h |-> "RedirectHandler", url |-> Append(path, "")]
             ELSE IF path # r.path
                  THEN [h |-> "RedirectHandler", url |-> path]
                  ELSE handler(sm, r.path)

\* h.ServeHTTP(w, r) for the handler the mux chose.
Invoke(d, w, r) ==
    CASE d.h = "home"            -> home(w, r)
      [] d.h = "home_part000"    -> home_part000(w, r)
      [] d.h = "snippetView"     -> snippetView(w, r)
      [] d.h = "snippetCreate"   -> snippetCreate(w, r)
      [] d.h = "RedirectHandler" -> Redirect(w, r, Join(d.url), StatusMovedPermanently)
      [] d.h = "NotFoundHandler" -> NotFound(w, r)

\* mux.ServeHTTP that hands every handler one package-level writer: a handler
\* writes on what the last finished response left in it.
ServeHTTP_SharedWriter(sm, w, r) ==
    LET done == { c \in DOMAIN conns : conns[c].pc = "done" }
    IN  Invoke(Handler(sm, r), IF done = {} THEN w ELSE conns[CHOOSE c \in done : TRUE].w, r)

\* mux.ServeHTTP(w, r)
ServeHTTP(sm, w, r) == Invoke(Handler(sm, r), w, r)

(***************************************************************************)
(* The server: http.ListenAndServe(addr, mux)                              *)
(***************************************************************************)
NoRequest == [method |-> "", path |-> <<>>]

IdleConn == [pc |-> "idle", req |-> NoRequest, h |-> "", w |-> NewResponseWriter]

\* main has built the mux and listens; no request has arrived.  The
\* sequential server serves one connection at a time.
Init ==
    /\ mux = MainMux
    /\ conns = [c \in {1} |-> IdleConn]

\* The same, with MaxConns connections served concurrently.
InitConc ==
    /\ mux = MainMux
    /\ conns = [c \in 1..MaxConns |-> IdleConn]

\* The server reads a request on a connection and gives it a fresh writer.
Accept ==
    \E c \in DOMAIN conns :
        /\ conns[c].pc = "idle"
        /\ \E r \in Requests :
              conns' = [conns EXCEPT ![c] =
                          [pc |-> "serving", req |-> r, h |-> "", w |-> NewResponseWriter]]
        /\ UNCHANGED mux

\* Accept, with the requests of the concurrent server.
AcceptConc ==
    \E c \in DOMAIN conns :
        /\ conns[c].pc = "idle"
        /\ \E r \in ConcRequests :
              conns' = [conns EXCEPT ![c] =
                          [pc |-> "serving", req |-> r, h |-> "", w |-> NewResponseWriter]]
        /\ UNCHANGED mux

\* The connection's goroutine runs mux.ServeHTTP: the mux chooses the handler
\* and the handler runs to its return.
Serve ==
    \E c \in DOMAIN conns :
        /\ conns[c].pc = "serving"
        /\ conns' = [conns EXCEPT ![c].pc = "done",
                                  ![c].h  = Handler(mux, conns[c].req).h,
                                  ![c].w  = ServeHTTP(mux, conns[c].w, conns[c].req)]
        /\ UNCHANGED mux

\* The response is flushed and the connection waits for its next request.
Finish ==
    \E c \in DOMAIN conns :
        /\ conns[c].pc = "done"
        /\ conns' = [conns EXCEPT ![c] = IdleConn]
        /\ UNCHANGED mux

Next == Accept \/ Serve \/ Finish

NextConc == AcceptConc \/ Serve \/ Finish

Spec == Init /\ [][Next]_vars

SpecConc == InitConc /\ [][NextConc]_vars

(***************************************************************************)
(* Properties                                                              *)
(***************************************************************************)
Done(c) == conns[c].pc = "done"

\* The handler called w.Write(b).
Wrote(w, b) == \E i \in 1..Len(w.calls) : w.calls[i].op = "Write" /\ w.calls[i].val = b

\* The positions in w.calls of the calls of op.
CallsOf(w, op) == { i \in 1..Len(w.calls) : w.calls[i].op = op }

\* A path in canonical form: rooted, no "." or ".." segment, and no empty
\* segment but a last one (the trailing slash).
CanonicalForm(p) ==
    /\ Len(p) >= 2 /\ p[1] = ""
    /\ \A i \in 2..Len(p) : p[i] \notin {".", ".."} /\ (p[i] = "" => i = Len(p))

\* The registered table, as the set of its bindings.
Table == { Registrations[i] : i \in 1..Len(Registrations) }

\* The registrations of main in every order.
Orders ==
    { [i \in 1..Len(Registrations) |-> Registrations[o[i]]] :
        o \in { f \in [1..Len(Registrations) -> 1..Len(Registrations)] :
                  \A i, j \in 1..Len(Registrations) : f[i] = f[j] => i = j } }

\* The reference longest-match operator: an exact pattern equal to the path
\* wins; else the longest subtree pattern whose segments begin the path; else
\* not found.
RefDispatch(table, path) ==
    LET exact == { e \in table : ~IsSubtree(e.pattern) /\ e.pattern = path }
        sub   == { e \in table :
                     /\ IsSubtree(e.pattern)
                     /\ Len(e.pattern) <= Len(path)
                     /\ \A i \in 1..(Len(e.pattern) - 1) : path[i] = e.pattern[i] }
    IN  IF exact # {} THEN (CHOOSE e \in exact : TRUE).h
        ELSE IF sub # {}
             THEN (CHOOSE e \in sub : \A f \in sub : StrLen(f.pattern) <= StrLen(e.pattern)).h
             ELSE "NotFoundHandler"

\* A path other than the registered ones that extends /snippet/view or
\* /snippet/create, or is the beginning of one of them.
NearExact(path) ==
    /\ path \notin {RootPath, SnippetViewPath, SnippetCreatePath}
    /\ \E pat \in {SnippetViewPath, SnippetCreatePath} :
          \/ StrHasPrefix(Join(path), Join(pat))
          \/ StrHasPrefix(Join(pat), Join(path))

C3_DispatchIsLongestMatch ==
    \A c \in DOMAIN conns :
        Done(c) =>
           /\ conns[c].h = RefDispatch(Table, conns[c].req.path)
           /\ \A m \in Methods :
                 Handler(mux, [method |-> m, path |-> conns[c].req.path]).h = conns[c].h
           /\ \A o \in Orders : Handler(BuildMux(o), conns[c].req).h = conns[c].h

\* C3 (amended): for a request whose path is in canonical form, the handler
\* the mux chose is the one the reference longest-match operator gives, and
\* is the same for every method and for every order of the registrations; a
\* request whose path is not in canonical form and whose method is not
\* CONNECT is given to the redirect handler.
C3_CanonicalDispatchIsLongestMatch ==
    \A c \in DOMAIN conns :
        Done(c) =>
           /\ CanonicalForm(conns[c].req.path) =>
                 /\ conns[c].h = RefDispatch(Table, conns[c].req.path)
                 /\ \A m \in Methods :
                       Handler(mux, [method |-> m, path |-> conns[c].req.path]).h = conns[c].h
                 /\ \A o \in Orders : Handler(BuildMux(o), conns[c].req).h = conns[c].h
           /\ (~CanonicalForm(conns[c].req.path) /\ conns[c].req.method # "CONNECT")
                 => conns[c].h = "RedirectHandler"

C3_Witness ==
    \E c \in DOMAIN conns :
        /\ Done(c)
        /\ conns[c].req = [method |-> "PUT", path |-> SnippetViewPath]
        /\ conns[c].h = "snippetView"

\* C4: every finished POST request to /snippet/create has status 200 and the
\* body "Create a new snippet...", and the handler set no Allow header.
C4_PostCreates ==
    \A c \in DOMAIN conns :
        (Done(c) /\ conns[c].req = [method |-> "POST", path |-> SnippetCreatePath])
        => /\ conns[c].w.status = 200
           /\ conns[c].w.body = "Create a new snippet..."
           /\ conns[c].w.header["Allow"] = ""
           /\ \A i \in CallsOf(conns[c].w, "Header.Set") : conns[c].w.calls[i].key # "Allow"

C4_Witness ==
    \E c \in DOMAIN conns :
        /\ Done(c)
        /\ conns[c].req = [method |-> "POST", path |-> SnippetCreatePath]
        /\ conns[c].h = "snippetCreate"

C7_CallOrder ==
    \A c \in DOMAIN conns :
        Done(c) =>
          LET w == conns[c].w
              allow  == { i \in CallsOf(w, "Header.Set") : w.calls[i].key = "Allow" }
              status == CallsOf(w, "WriteHeader")
              writes == CallsOf(w, "Write")
          IN  /\ (conns[c].h = "snippetCreate" /\ conns[c].req.method # "POST")
                 => /\ Cardinality(allow) = 1
                    /\ Cardinality(status) = 1
                    /\ Cardinality(writes) = 1
                    /\ \A i \in allow : w.calls[i].val = "POST"
                    /\ \A j \in status : w.calls[j].code = 405
                    /\ \A i \in allow, j \in status, k \in writes : i < j /\ j < k
                    /\ \A k \in writes :
                          k = Len(w.calls) /\ w.calls[k].val = "Method Not Allowed\n"
                    /\ ~Wrote(w, "Create a new snippet...")
              /\ Cardinality(status) <= 1
              /\ \A i \in CallsOf(w, "Header.Set") : \A j \in status \cup writes : i < j

C7_Witness ==
    \E c \in DOMAIN conns :
        /\ Done(c)
        /\ conns[c].h = "snippetCreate"
        /\ conns[c].req.method = "PUT"
        /\ Len(conns[c].w.calls) = 5

\* C8: a finished request to /snippet/create whose method is any string
\* other than "POST" ("post" and "Post" among them) has status 405 and the
\* header Allow: POST, and snippetCreate answers 200 only to the method "POST".
C8_MethodCaseSensitive ==
    \A c \in DOMAIN conns :
        /\ (Done(c) /\ conns[c].req.path = SnippetCreatePath /\ conns[c].req.method # "POST")
           => conns[c].w.status = 405 /\ conns[c].w.header["Allow"] = "POST"
        /\ (Done(c) /\ conns[c].h = "snippetCreate" /\ conns[c].w.status = 200)
           => conns[c].req.method = "POST"

C8_Witness ==
    \E c \in DOMAIN conns :
        /\ Done(c)
        /\ conns[c].req = [method |-> "post", path |-> SnippetCreatePath]
        /\ conns[c].w.status = 405

\* C9 (as stated): every finished request whose path extends or begins
\* /snippet/view or /snippet/create without being a registered path went to
\* home and has status 404, whatever its method; and a response has status
\* 405 only when the path is /snippet/create.
C9_ExactPatternsLiteral ==
    \A c \in DOMAIN conns :
        Done(c) =>
           /\ NearExact(conns[c].req.path)
                 => conns[c].h = "home" /\ conns[c].w.status = 404
           /\ conns[c].w.status = 405 => conns[c].req.path = SnippetCreatePath

\* C9 (amended): every finished request whose path is in canonical form and
\* extends or begins /snippet/view or /snippet/create without being a
\* registered path went to home and has status 404, whatever its method; and
\* a response has status 405 only when the path is /snippet/create.
C9_CanonicalExactPatternsLiteral ==
    \A c \in DOMAIN conns :
        Done(c) =>
           /\ (NearExact(conns[c].req.path) /\ CanonicalForm(conns[c].req.path))
                 => conns[c].h = "home" /\ conns[c].w.status = 404
           /\ conns[c].w.status = 405 => conns[c].req.path = SnippetCreatePath

C9_Witness ==
    \E c \in DOMAIN conns :
        /\ Done(c)
        /\ conns[c].req = [method |-> "GET", path |-> <<"", "snippet", "create", "">>]
        /\ conns[c].w.status = 404

====
